---- MODULE Spec2Model ----
(***************************************************************************)
(* State-machine model of the art-piece registry: the PieceMgr class       *)
(* (src/PieceMgr.py, a thin layer over three sqlite tables) and the bottle *)
(* HTTP handlers that call it (src/fuckme.py).                             *)
(*                                                                         *)
(* Three specifications share the state:                                   *)
(*   Spec     the program as it runs: the only entry points are the HTTP   *)
(*            handlers of fuckme.py, served one request at a time;         *)
(*   SpecMgr  the PieceMgr class used as a library: its public methods     *)
(*            called directly, in any order, with any arguments;           *)
(*   SpecConc newUser and registerNewPiece called by several threads (or   *)
(*            server processes on one database file) at once, each call    *)
(*            taking its SQL statements one at a time.                     *)
(*                                                                         *)
(* A table is a sequence of rows in rowid (insertion) order; no statement  *)
(* of the program deletes a row, so a SELECT without ORDER BY and          *)
(* fetchone() see the rows in that order: "select ... where" is SelectSeq. *)
(***************************************************************************)
EXTENDS Integers, Sequences, FiniteSets, TLC

VARIABLES
    users,          \* table users(name, user_id)
    art_pieces,     \* table art_pieces(name, piece_uid, creator_id, owner_id, on_sale)
    transactions,   \* table transactions(piece_uid, old_owner_id, new_owner_id, dt)
    ret,            \* the last call: [op, args, resp]
    inflight        \* per thread: the PieceMgr call it is in the middle of

vars == <<users, art_pieces, transactions, ret, inflight>>
stores == <<users, art_pieces, transactions>>

(***************************************************************************)
(* Bounds and inputs.                                                      *)
(***************************************************************************)
\* config.MAX_USER_ID: config.py is not part of the sources, so the value is
\* a choice of the model.
MAX_USER_ID == 3

\* The callers that may be inside PieceMgr at once (SpecConc).
NumThreads == 2
Threads == 1..NumThreads
\* Inputs of the concurrent calls.
ConcNames == {"alice", "bob"}
ConcUids == {"TAG-001"}
ConcPieceNames == {"Sunflowers"}
ConcIds == {1, 2}

\* Inputs of the direct PieceMgr calls.
MgrNames == {"alice", "bob"}
MgrUids == {"TAG-001", "TAG-002"}
MgrPieceNames == {"Sunflowers"}
MgrIds == 0..MAX_USER_ID

\* A form field that the request does not carry at all: forms[key] raises
\* KeyError.  (A missing query attribute reads as "", and getunicode of a
\* missing piece_name gives None, which "not piece_name" treats like "".)
Absent == "<absent>"
\* Inputs of the HTTP handlers: query and form values are strings.
QueryNames == {"", "alice", "bob", "carol"}
QueryUids == {"", "TAG-001", "TAG-002"}
QueryIds == {"", "x", "0", "1", "2"}
FormIds == {Absent, "", "x", "0", "1", "2"}
FormUids == {Absent, "", "TAG-001", "TAG-002"}
FormPieceNames == {"", "Sunflowers"}
FormFlags == {Absent, "", "True", "false"}

(***************************************************************************)
(* Python values.                                                          *)
(***************************************************************************)
\* Optional[T]: None, or a value.
None == <<>>
Some(x) == <<x>>
Val(o) == o[1]

\* bool() of an Optional[int] / Optional[str] / Optional[list] / Optional[dict]:
\* None, 0, "" and [] are false.  A dict built by findPieceByUid is never empty.
TruthyInt(o) == o # None /\ Val(o) # 0
TruthyStr(o) == o # None /\ Val(o) # ""
TruthyList(o) == o # None /\ Val(o) # <<>>
TruthyDict(o) == o # None

RECURSIVE MaxUserId(_)
\* select MAX(user_id) from users: None on an empty table.
MaxUserId(us) ==
    IF us = <<>> THEN None
    ELSE LET rest == MaxUserId(Tail(us))
         IN  IF rest = None \/ Head(us).user_id > Val(rest)
             THEN Some(Head(us).user_id) ELSE rest

\* cursor.rowcount after a SELECT: the sqlite3 module leaves it at -1.
rowcount_after_select == -1

(***************************************************************************)
(* PieceMgr (src/PieceMgr.py).  Each method is an operator from the tables *)
(* before the call to its return value and the tables after it.            *)
(***************************************************************************)
newUser_noIncrement(us, name) ==
    LET m == MaxUserId(us)
        user_id == IF m = None THEN 0 ELSE Val(m)
    IN  IF user_id >= MAX_USER_ID
        THEN [ret |-> None, users |-> us]
        ELSE [ret |-> Some(user_id),
              users |-> Append(us, [name |-> name, user_id |-> user_id])]

newUser_allowMax(us, name) ==
    LET m == MaxUserId(us)
        user_id == (IF m = None THEN 0 ELSE Val(m)) + 1
    IN  IF user_id > MAX_USER_ID
        THEN [ret |-> None, users |-> us]
        ELSE [ret |-> Some(user_id),
              users |-> Append(us, [name |-> name, user_id |-> user_id])]

newUser_insertBeforeCheck(us, name) ==
    LET m == MaxUserId(us)
        user_id == (IF m = None THEN 0 ELSE Val(m)) + 1
        inserted == Append(us, [name |-> name, user_id |-> user_id])
    IN  IF user_id >= MAX_USER_ID
        THEN [ret |-> None, users |-> inserted]
        ELSE [ret |-> Some(user_id), users |-> inserted]

newUser(us, name) ==
    LET m == MaxUserId(us)
        user_id == (IF m = None THEN 0 ELSE Val(m)) + 1
    IN  IF user_id >= MAX_USER_ID
        THEN [ret |-> None, users |-> us]
        ELSE [ret |-> Some(user_id),
              users |-> Append(us, [name |-> name, user_id |-> user_id])]

findUserIdByName_skipsFirstRow(us, name) ==
    LET rows == SelectSeq(Tail(us), LAMBDA r : r.name = name)
    IN  IF us = <<>> \/ rows = <<>> THEN None ELSE Some(rows[1].user_id)

findUserIdByName(us, name) ==
    LET rows == SelectSeq(us, LAMBDA r : r.name = name)
    IN  IF rows = <<>> THEN None ELSE Some(rows[1].user_id)

findUserNameById(us, user_id) ==
    LET rows == SelectSeq(us, LAMBDA r : r.user_id = user_id)
    IN  IF rows = <<>> THEN None ELSE Some(rows[1].name)

\* The dict built from a row of art_pieces: its keys are name, piece_uid,
\* creator, owner and on_sale; creator and owner are names (or None).
PieceDict(us, row) ==
    [name |-> row.name,
     piece_uid |-> row.piece_uid,
     creator |-> findUserNameById(us, row.creator_id),
     owner |-> findUserNameById(us, row.owner_id),
     on_sale |-> row.on_sale]

findPieceByUid(us, pcs, piece_uid) ==
    LET rows == SelectSeq(pcs, LAMBDA r : r.piece_uid = piece_uid)
    IN  IF rows = <<>> THEN None ELSE Some(PieceDict(us, rows[1]))

markOnSale(pcs, piece_uid, is_on_sale) ==
    LET hit == {i \in DOMAIN pcs : pcs[i].piece_uid = piece_uid}
    IN  [ret |-> Cardinality(hit) > 0,
         art_pieces |-> [i \in DOMAIN pcs |->
                            IF i \in hit
                            THEN [pcs[i] EXCEPT !.on_sale = is_on_sale]
                            ELSE pcs[i]]]

NewPieceRow_ownerUnset(name, piece_uid, creator_id) ==
    [name |-> name, piece_uid |-> piece_uid, creator_id |-> creator_id,
     owner_id |-> 0, on_sale |-> FALSE]

NewPieceRow_onSale(name, piece_uid, creator_id) ==
    [name |-> name, piece_uid |-> piece_uid, creator_id |-> creator_id,
     owner_id |-> creator_id, on_sale |-> TRUE]

NewPieceRow(name, piece_uid, creator_id) ==
    [name |-> name, piece_uid |-> piece_uid, creator_id |-> creator_id,
     owner_id |-> creator_id, on_sale |-> FALSE]

registerNewPiece_noCheck(us, pcs, name, piece_uid, creator_id) ==
    [ret |-> TRUE,
     art_pieces |-> Append(pcs, NewPieceRow(name, piece_uid, creator_id))]

registerNewPiece_upsert(us, pcs, name, piece_uid, creator_id) ==
    IF TruthyDict(findPieceByUid(us, pcs, piece_uid))
    THEN [ret |-> FALSE,
          art_pieces |-> [i \in DOMAIN pcs |->
                             IF pcs[i].piece_uid = piece_uid
                             THEN NewPieceRow(name, piece_uid, creator_id)
                             ELSE pcs[i]]]
    ELSE [ret |-> TRUE,
          art_pieces |-> Append(pcs, NewPieceRow(name, piece_uid, creator_id))]

registerNewPiece(us, pcs, name, piece_uid, creator_id) ==
    IF TruthyDict(findPieceByUid(us, pcs, piece_uid))
    THEN [ret |-> FALSE, art_pieces |-> pcs]
    ELSE [ret |-> TRUE,
          art_pieces |-> Append(pcs, NewPieceRow(name, piece_uid, creator_id))]

TransactionDict(us, row) ==
    [old_owner |-> findUserNameById(us, row.old_owner_id),
     new_owner |-> findUserNameById(us, row.new_owner_id),
     dt |-> row.dt]

getTransactions(us, txs, piece_uid) ==
    LET rows == SelectSeq(txs, LAMBDA r : r.piece_uid = piece_uid)
    IN  IF rowcount_after_select = 0 THEN None
        ELSE Some([i \in DOMAIN rows |-> TransactionDict(us, rows[i])])

getCreatorPieces_firstOnly(us, pcs, creator_id) ==
    LET rows == SelectSeq(pcs, LAMBDA r : r.creator_id = creator_id)
    IN  IF rowcount_after_select = 0 THEN None
        ELSE IF rows = <<>> THEN Some(<<>>)
        ELSE Some(<<PieceDict(us, rows[1])>>)

getCreatorPieces(us, pcs, creator_id) ==
    LET rows == SelectSeq(pcs, LAMBDA r : r.creator_id = creator_id)
    IN  IF rowcount_after_select = 0 THEN None
        ELSE Some([i \in DOMAIN rows |-> PieceDict(us, rows[i])])

(***************************************************************************)
(* Initial state: PieceMgr.__init__ on a fresh database file creates the   *)
(* three tables, empty.                                                    *)
(***************************************************************************)
NoCall == [op |-> "", args |-> <<>>, resp |-> None]
\* A thread that is in no call.
Idle == [op |-> "idle"]

Init ==
    /\ users = <<>>
    /\ art_pieces = <<>>
    /\ transactions = <<>>
    /\ ret = NoCall
    /\ inflight = [t \in Threads |-> Idle]

(***************************************************************************)
(* SpecMgr: the public methods of PieceMgr called directly.                *)
(***************************************************************************)
Call(op, args, resp) == [op |-> op, args |-> args, resp |-> resp]

NewUserCall ==
    \E name \in MgrNames :
        \E r \in {newUser(users, name)} :
            /\ users' = r.users
            /\ ret' = Call("newUser", <<name>>, r.ret)
            /\ UNCHANGED <<art_pieces, transactions, inflight>>

FindUserIdByNameCall ==
    \E name \in MgrNames :
        /\ ret' = Call("findUserIdByName", <<name>>, findUserIdByName(users, name))
        /\ UNCHANGED <<stores, inflight>>

FindUserNameByIdCall ==
    \E id \in MgrIds :
        /\ ret' = Call("findUserNameById", <<id>>, findUserNameById(users, id))
        /\ UNCHANGED <<stores, inflight>>

FindPieceByUidCall ==
    \E uid \in MgrUids :
        /\ ret' = Call("findPieceByUid", <<uid>>, findPieceByUid(users, art_pieces, uid))
        /\ UNCHANGED <<stores, inflight>>

MarkOnSaleCall ==
    \E uid \in MgrUids, flag \in BOOLEAN :
        \E r \in {markOnSale(art_pieces, uid, flag)} :
            /\ art_pieces' = r.art_pieces
            /\ ret' = Call("markOnSale", <<uid, flag>>, r.ret)
            /\ UNCHANGED <<users, transactions, inflight>>

RegisterNewPieceCall ==
    \E name \in MgrPieceNames, uid \in MgrUids, id \in MgrIds :
        \E r \in {registerNewPiece(users, art_pieces, name, uid, id)} :
            /\ art_pieces' = r.art_pieces
            /\ ret' = Call("registerNewPiece", <<name, uid, id>>, r.ret)
            /\ UNCHANGED <<users, transactions, inflight>>

GetTransactionsCall ==
    \E uid \in MgrUids :
        /\ ret' = Call("getTransactions", <<uid>>, getTransactions(users, transactions, uid))
        /\ UNCHANGED <<stores, inflight>>

GetCreatorPiecesCall ==
    \E id \in MgrIds :
        /\ ret' = Call("getCreatorPieces", <<id>>, getCreatorPieces(users, art_pieces, id))
        /\ UNCHANGED <<stores, inflight>>

NextMgr ==
    \/ NewUserCall
    \/ FindUserIdByNameCall
    \/ FindUserNameByIdCall
    \/ FindPieceByUidCall
    \/ MarkOnSaleCall
    \/ RegisterNewPieceCall
    \/ GetTransactionsCall
    \/ GetCreatorPiecesCall

SpecMgr == Init /\ [][NextMgr]_vars

(***************************************************************************)
(* SpecConc: newUser and registerNewPiece entered by several threads.      *)
(* PieceMgr takes no lock and opens no transaction around a method: each   *)
(* execute() (with its fetch) and each insert-and-commit is a step of its  *)
(* own, and the steps of different callers interleave freely.              *)
(***************************************************************************)
\* newUser up to "user_id += 1": the id this caller will try to insert.
newUser_read(us) ==
    LET m == MaxUserId(us)
    IN  (IF m = None THEN 0 ELSE Val(m)) + 1

\* newUser from the capacity check on, with the id read before.
newUser_write(us, name, user_id) ==
    IF user_id >= MAX_USER_ID
    THEN [ret |-> None, users |-> us]
    ELSE [ret |-> Some(user_id),
          users |-> Append(us, [name |-> name, user_id |-> user_id])]

NewUserSelectMax(t) ==
    /\ inflight[t] = Idle
    /\ \E name \in ConcNames :
          inflight' = [inflight EXCEPT ![t] =
                          [op |-> "newUser", name |-> name,
                           user_id |-> newUser_read(users)]]
    /\ UNCHANGED <<stores, ret>>

NewUserInsert(t) ==
    /\ inflight[t].op = "newUser"
    /\ \E r \in {newUser_write(users, inflight[t].name, inflight[t].user_id)} :
          /\ users' = r.users
          /\ ret' = Call("newUser", <<inflight[t].name>>, r.ret)
    /\ inflight' = [inflight EXCEPT ![t] = Idle]
    /\ UNCHANGED <<art_pieces, transactions>>

\* registerNewPiece: the existence check; a caller that finds the uid
\* returns False at once, one that does not goes on to the insert.
RegisterNewPieceCheck(t) ==
    /\ inflight[t] = Idle
    /\ \E name \in ConcPieceNames, uid \in ConcUids, id \in ConcIds :
          IF TruthyDict(findPieceByUid(users, art_pieces, uid))
          THEN /\ ret' = Call("registerNewPiece", <<name, uid, id>>, FALSE)
               /\ UNCHANGED inflight
          ELSE /\ inflight' = [inflight EXCEPT ![t] =
                                  [op |-> "registerNewPiece", name |-> name,
                                   piece_uid |-> uid, creator_id |-> id]]
               /\ UNCHANGED ret
    /\ UNCHANGED stores

RegisterNewPieceInsert(t) ==
    /\ inflight[t].op = "registerNewPiece"
    /\ art_pieces' = Append(art_pieces,
                            NewPieceRow(inflight[t].name, inflight[t].piece_uid,
                                        inflight[t].creator_id))
    /\ ret' = Call("registerNewPiece",
                   <<inflight[t].name, inflight[t].piece_uid, inflight[t].creator_id>>,
                   TRUE)
    /\ inflight' = [inflight EXCEPT ![t] = Idle]
    /\ UNCHANGED <<users, transactions>>

NextConc ==
    \E t \in Threads :
        \/ NewUserSelectMax(t)
        \/ NewUserInsert(t)
        \/ RegisterNewPieceCheck(t)
        \/ RegisterNewPieceInsert(t)

SpecConc == Init /\ [][NextConc]_vars

(***************************************************************************)
(* The HTTP layer (src/fuckme.py).                                         *)
(***************************************************************************)
\* class Status(Enum)
Status == [OK |-> 0, NOT_FOUND |-> 1, ALREADY_EXISTS |-> 2, VALUE_ERROR |-> 3]

\* genReturnValue builds {'status': status.value, 'value': value}; its str()
\* is the response body.
genReturnValue(status, value) == [status |-> status, value |-> value]

\* An exception that leaves a handler: bottle answers 500 and the handler
\* returns nothing.  (index returns a page, [html |-> ...], not a status.)
Raise(exc) == [raised |-> exc]

Returned(resp, status) == "status" \in DOMAIN resp /\ resp.status = status
Raised(resp, exc) == "raised" \in DOMAIN resp /\ resp.raised = exc

\* int(str) on the strings the requests carry: a decimal digit parses to its
\* number, anything else raises ValueError.
DecimalDigits == <<"0", "1", "2", "3", "4", "5", "6", "7", "8", "9">>
IsNumeric(s) == \E i \in DOMAIN DecimalDigits : DecimalDigits[i] = s
int(s) == (CHOOSE i \in DOMAIN DecimalDigits : DecimalDigits[i] = s) - 1

\* str.lower() on the on_sale strings.
lower(s) == IF s = "True" \/ s = "TRUE" THEN "true"
            ELSE IF s = "False" \/ s = "FALSE" THEN "false"
            ELSE s

\* What a handler does: its response and the tables after it.
Outcome(resp, us, pcs, txs) ==
    [resp |-> resp, users |-> us, art_pieces |-> pcs, transactions |-> txs]

index_h(us, pcs, txs) ==
    Outcome([html |-> "<b>WTF are you looking for?</b>"], us, pcs, txs)

get_user_id_alwaysCreate(us, pcs, txs, username) ==
    IF username = ""
    THEN Outcome(genReturnValue(Status.VALUE_ERROR, "Name parameter is required"),
                 us, pcs, txs)
    ELSE LET r == newUser(us, username)
         IN  IF ~TruthyInt(r.ret)
             THEN Outcome(genReturnValue(Status.VALUE_ERROR,
                                         "Failed to create new user"),
                          r.users, pcs, txs)
             ELSE Outcome(genReturnValue(Status.OK, Val(r.ret)),
                          r.users, pcs, txs)

get_user_id_h(us, pcs, txs, username) ==
    IF username = ""
    THEN Outcome(genReturnValue(Status.VALUE_ERROR, "Name parameter is required"),
                 us, pcs, txs)
    ELSE LET found == findUserIdByName(us, username)
         IN  IF ~TruthyInt(found)
             THEN LET r == newUser(us, username)
                  IN  IF ~TruthyInt(r.ret)
                      THEN Outcome(genReturnValue(Status.VALUE_ERROR,
                                                  "Failed to create new user"),
                                   r.users, pcs, txs)
                      ELSE Outcome(genReturnValue(Status.OK, Val(r.ret)),
                                   r.users, pcs, txs)
             ELSE Outcome(genReturnValue(Status.OK, Val(found)), us, pcs, txs)

check_user_exist_h(us, pcs, txs, username) ==
    IF username = ""
    THEN Outcome(genReturnValue(Status.VALUE_ERROR, "username parameter is required"),
                 us, pcs, txs)
    ELSE LET userId == findUserIdByName(us, username)
         IN  IF ~TruthyInt(userId)
             THEN Outcome(genReturnValue(Status.NOT_FOUND, "User not found"), us, pcs, txs)
             ELSE Outcome(genReturnValue(Status.OK, Val(userId)), us, pcs, txs)

new_piece_registerFirst(us, pcs, txs, user_id, piece_name, piece_uid) ==
    IF user_id = Absent \/ piece_uid = Absent
    THEN Outcome(Raise("KeyError"), us, pcs, txs)
    ELSE IF user_id = "" \/ piece_name = "" \/ piece_uid = ""
    THEN Outcome(genReturnValue(Status.VALUE_ERROR,
                    "Parameters user_id, piece_name, and piece_uid are required"),
                 us, pcs, txs)
    ELSE IF ~IsNumeric(user_id)
    THEN Outcome(Raise("ValueError"), us, pcs, txs)
    ELSE LET r == registerNewPiece(us, pcs, piece_name, piece_uid, int(user_id))
         IN  IF ~r.ret
             THEN Outcome(genReturnValue(Status.ALREADY_EXISTS,
                             "Art piece with this UID already exists"),
                          us, r.art_pieces, txs)
             ELSE IF findUserNameById(us, int(user_id)) = None
             THEN Outcome(genReturnValue(Status.NOT_FOUND, "User not found"),
                          us, r.art_pieces, txs)
             ELSE Outcome(genReturnValue(Status.OK, 0), us, r.art_pieces, txs)

new_piece_h(us, pcs, txs, user_id, piece_name, piece_uid) ==
    IF user_id = Absent \/ piece_uid = Absent
    THEN Outcome(Raise("KeyError"), us, pcs, txs)
    ELSE IF user_id = "" \/ piece_name = "" \/ piece_uid = ""
    THEN Outcome(genReturnValue(Status.VALUE_ERROR,
                    "Parameters user_id, piece_name, and piece_uid are required"),
                 us, pcs, txs)
    ELSE IF ~IsNumeric(user_id)
    THEN Outcome(Raise("ValueError"), us, pcs, txs)
    ELSE IF findUserNameById(us, int(user_id)) = None
    THEN Outcome(genReturnValue(Status.NOT_FOUND, "User not found"), us, pcs, txs)
    ELSE LET r == registerNewPiece(us, pcs, piece_name, piece_uid, int(user_id))
         IN  IF ~r.ret
             THEN Outcome(genReturnValue(Status.ALREADY_EXISTS,
                             "Art piece with this UID already exists"),
                          us, r.art_pieces, txs)
             ELSE Outcome(genReturnValue(Status.OK, 0), us, r.art_pieces, txs)

get_piece_info_h(us, pcs, txs, piece_uid) ==
    IF piece_uid = ""
    THEN Outcome(genReturnValue(Status.VALUE_ERROR, "piece_uid parameter is required"),
                 us, pcs, txs)
    ELSE LET result == findPieceByUid(us, pcs, piece_uid)
         IN  IF ~TruthyDict(result)
             THEN Outcome(genReturnValue(Status.NOT_FOUND, "Art piece not found"),
                          us, pcs, txs)
             ELSE Outcome(genReturnValue(Status.OK, Val(result)), us, pcs, txs)

mark_on_sale_h(us, pcs, txs, user_id, piece_uid, is_on_sale) ==
    IF user_id = Absent \/ piece_uid = Absent \/ is_on_sale = Absent
    THEN Outcome(Raise("KeyError"), us, pcs, txs)
    ELSE IF user_id = "" \/ piece_uid = "" \/ is_on_sale = ""
    THEN Outcome(genReturnValue(Status.VALUE_ERROR,
                    "Parameters user_id, piece_uid, and on_sale are required"),
                 us, pcs, txs)
    ELSE IF ~IsNumeric(user_id)
    THEN Outcome(Raise("ValueError"), us, pcs, txs)
    ELSE IF ~TruthyStr(findUserNameById(us, int(user_id)))
    THEN Outcome(genReturnValue(Status.NOT_FOUND, "User not found"), us, pcs, txs)
    ELSE LET piece_info == findPieceByUid(us, pcs, piece_uid)
         IN  IF ~TruthyDict(piece_info)
             THEN Outcome(genReturnValue(Status.NOT_FOUND, "Art piece not found"),
                          us, pcs, txs)
             ELSE IF "owner_id" \notin DOMAIN Val(piece_info)
             THEN Outcome(Raise("KeyError"), us, pcs, txs)
             ELSE IF Val(piece_info).owner_id # int(user_id)
             THEN Outcome(genReturnValue(Status.VALUE_ERROR,
                             "User does not own this art piece"),
                          us, pcs, txs)
             ELSE LET r == markOnSale(pcs, piece_uid, lower(is_on_sale) = "true")
                  IN  Outcome(genReturnValue(Status.OK, 0), us, r.art_pieces, txs)

get_piece_transactions_resultIsNone(us, pcs, txs, piece_uid) ==
    IF piece_uid = ""
    THEN Outcome(genReturnValue(Status.VALUE_ERROR, "piece_uid parameter is required"),
                 us, pcs, txs)
    ELSE LET result == getTransactions(us, txs, piece_uid)
         IN  IF result = None
             THEN Outcome(genReturnValue(Status.NOT_FOUND,
                             "No transactions found for this art piece"),
                          us, pcs, txs)
             ELSE Outcome(genReturnValue(Status.OK, Val(result)), us, pcs, txs)

get_piece_transactions_h(us, pcs, txs, piece_uid) ==
    IF piece_uid = ""
    THEN Outcome(genReturnValue(Status.VALUE_ERROR, "piece_uid parameter is required"),
                 us, pcs, txs)
    ELSE LET result == getTransactions(us, txs, piece_uid)
         IN  IF ~TruthyList(result)
             THEN Outcome(genReturnValue(Status.NOT_FOUND,
                             "No transactions found for this art piece"),
                          us, pcs, txs)
             ELSE Outcome(genReturnValue(Status.OK, Val(result)), us, pcs, txs)

\* The methods class PieceMgr defines.  new_transaction calls
\* pieceMgr.newTransaction, which is not one of them: the attribute lookup
\* raises AttributeError before anything is read or written.
PieceMgrMethods ==
    {"newUser", "findUserIdByName", "findUserNameById", "findPieceByUid",
     "markOnSale", "registerNewPiece", "getTransactions", "getCreatorPieces"}

new_transaction_noNewOwnerCheck(us, pcs, txs, old_owner_id, new_owner_id, piece_uid) ==
    IF old_owner_id = Absent \/ new_owner_id = Absent \/ piece_uid = Absent
    THEN Outcome(Raise("KeyError"), us, pcs, txs)
    ELSE IF old_owner_id = "" \/ new_owner_id = "" \/ piece_uid = ""
    THEN Outcome(genReturnValue(Status.VALUE_ERROR,
                    "Parameters old_owner_id, new_owner_id, and piece_uid are required"),
                 us, pcs, txs)
    ELSE IF ~IsNumeric(old_owner_id)
    THEN Outcome(Raise("ValueError"), us, pcs, txs)
    ELSE IF ~TruthyStr(findUserNameById(us, int(old_owner_id)))
    THEN Outcome(genReturnValue(Status.NOT_FOUND, "Old owner not found"), us, pcs, txs)
    ELSE IF ~IsNumeric(new_owner_id)
    THEN Outcome(Raise("ValueError"), us, pcs, txs)
    ELSE IF "newTransaction" \notin PieceMgrMethods
    THEN Outcome(Raise("AttributeError"), us, pcs, txs)
    ELSE Outcome(genReturnValue(Status.VALUE_ERROR,
                    "User does not own this art piece or piece UID is invalid"),
                 us, pcs, txs)

new_transaction_h(us, pcs, txs, old_owner_id, new_owner_id, piece_uid) ==
    IF old_owner_id = Absent \/ new_owner_id = Absent \/ piece_uid = Absent
    THEN Outcome(Raise("KeyError"), us, pcs, txs)
    ELSE IF old_owner_id = "" \/ new_owner_id = "" \/ piece_uid = ""
    THEN Outcome(genReturnValue(Status.VALUE_ERROR,
                    "Parameters old_owner_id, new_owner_id, and piece_uid are required"),
                 us, pcs, txs)
    ELSE IF ~IsNumeric(old_owner_id)
    THEN Outcome(Raise("ValueError"), us, pcs, txs)
    ELSE IF ~TruthyStr(findUserNameById(us, int(old_owner_id)))
    THEN Outcome(genReturnValue(Status.NOT_FOUND, "Old owner not found"), us, pcs, txs)
    ELSE IF ~IsNumeric(new_owner_id)
    THEN Outcome(Raise("ValueError"), us, pcs, txs)
    ELSE IF ~TruthyStr(findUserNameById(us, int(new_owner_id)))
    THEN Outcome(genReturnValue(Status.NOT_FOUND, "New owner not found"), us, pcs, txs)
    ELSE IF "newTransaction" \notin PieceMgrMethods
    THEN Outcome(Raise("AttributeError"), us, pcs, txs)
    ELSE Outcome(genReturnValue(Status.VALUE_ERROR,
                    "User does not own this art piece or piece UID is invalid"),
                 us, pcs, txs)

creator_get_pieces_h(us, pcs, txs, user_id) ==
    IF user_id = ""
    THEN Outcome(genReturnValue(Status.VALUE_ERROR, "user_id parameter is required"),
                 us, pcs, txs)
    ELSE IF ~IsNumeric(user_id)
    THEN Outcome(Raise("ValueError"), us, pcs, txs)
    ELSE LET result == getCreatorPieces(us, pcs, int(user_id))
         IN  IF ~TruthyList(result)
             THEN Outcome(genReturnValue(Status.NOT_FOUND,
                             "No art pieces found for this user"),
                          us, pcs, txs)
             ELSE Outcome(genReturnValue(Status.OK, Val(result)), us, pcs, txs)

\* One request served: the tables become the handler's, ret records the call.
index ==
    \E o \in {index_h(users, art_pieces, transactions)} :
        /\ ret' = Call("index", <<>>, o.resp)
        /\ users' = o.users
        /\ art_pieces' = o.art_pieces
        /\ transactions' = o.transactions
        /\ UNCHANGED inflight

get_user_id ==
    \E username \in QueryNames :
        \E o \in {get_user_id_h(users, art_pieces, transactions, username)} :
            /\ ret' = Call("get_user_id", <<username>>, o.resp)
            /\ users' = o.users
            /\ art_pieces' = o.art_pieces
            /\ transactions' = o.transactions
            /\ UNCHANGED inflight

check_user_exist ==
    \E username \in QueryNames :
        \E o \in {check_user_exist_h(users, art_pieces, transactions, username)} :
            /\ ret' = Call("check_user_exist", <<username>>, o.resp)
            /\ users' = o.users
            /\ art_pieces' = o.art_pieces
            /\ transactions' = o.transactions
            /\ UNCHANGED inflight

new_piece ==
    \E user_id \in FormIds, piece_name \in FormPieceNames, piece_uid \in FormUids :
        \E o \in {new_piece_h(users, art_pieces, transactions,
                             user_id, piece_name, piece_uid)} :
            /\ ret' = Call("new_piece", <<user_id, piece_name, piece_uid>>, o.resp)
            /\ users' = o.users
            /\ art_pieces' = o.art_pieces
            /\ transactions' = o.transactions
            /\ UNCHANGED inflight

get_piece_info ==
    \E piece_uid \in QueryUids :
        \E o \in {get_piece_info_h(users, art_pieces, transactions, piece_uid)} :
            /\ ret' = Call("get_piece_info", <<piece_uid>>, o.resp)
            /\ users' = o.users
            /\ art_pieces' = o.art_pieces
            /\ transactions' = o.transactions
            /\ UNCHANGED inflight

mark_on_sale ==
    \E user_id \in FormIds, piece_uid \in FormUids, is_on_sale \in FormFlags :
        \E o \in {mark_on_sale_h(users, art_pieces, transactions,
                                user_id, piece_uid, is_on_sale)} :
            /\ ret' = Call("mark_on_sale", <<user_id, piece_uid, is_on_sale>>, o.resp)
            /\ users' = o.users
            /\ art_pieces' = o.art_pieces
            /\ transactions' = o.transactions
            /\ UNCHANGED inflight

get_piece_transactions ==
    \E piece_uid \in QueryUids :
        \E o \in {get_piece_transactions_h(users, art_pieces, transactions, piece_uid)} :
            /\ ret' = Call("get_piece_transactions", <<piece_uid>>, o.resp)
            /\ users' = o.users
            /\ art_pieces' = o.art_pieces
            /\ transactions' = o.transactions
            /\ UNCHANGED inflight

new_transaction ==
    \E old_owner_id \in FormIds, new_owner_id \in FormIds, piece_uid \in FormUids :
        \E o \in {new_transaction_h(users, art_pieces, transactions,
                                   old_owner_id, new_owner_id, piece_uid)} :
            /\ ret' = Call("new_transaction",
                           <<old_owner_id, new_owner_id, piece_uid>>, o.resp)
            /\ users' = o.users
            /\ art_pieces' = o.art_pieces
            /\ transactions' = o.transactions
            /\ UNCHANGED inflight

creator_get_pieces ==
    \E user_id \in QueryIds :
        \E o \in {creator_get_pieces_h(users, art_pieces, transactions, user_id)} :
            /\ ret' = Call("creator_get_pieces", <<user_id>>, o.resp)
            /\ users' = o.users
            /\ art_pieces' = o.art_pieces
            /\ transactions' = o.transactions
            /\ UNCHANGED inflight

Next ==
    \/ index
    \/ get_user_id
    \/ check_user_exist
    \/ new_piece
    \/ get_piece_info
    \/ mark_on_sale
    \/ get_piece_transactions
    \/ new_transaction
    \/ creator_get_pieces

Spec == Init /\ [][Next]_vars

(***************************************************************************)
(* Properties.                                                             *)
(***************************************************************************)
UserExists(us, id) == \E i \in DOMAIN us : us[i].user_id = id
PieceRows(pcs, uid) == SelectSeq(pcs, LAMBDA r : r.piece_uid = uid)
TransactionRows(txs, uid) == SelectSeq(txs, LAMBDA r : r.piece_uid = uid)
\* A form value that int() parses.
WellFormedId(s) == IsNumeric(s)
\* A form value that is present and not empty.
WellFormedStr(s) == s # Absent /\ s # ""

\* C1 (as claimed): new_transaction with two existing users answers OK iff
\* the piece exists and old_owner_id is its current owner_id; otherwise it
\* answers VALUE_ERROR and leaves art_pieces and transactions as they were.
C1_TransferAuthorization ==
    [][(/\ ret'.op = "new_transaction"
        /\ WellFormedId(ret'.args[1]) /\ WellFormedId(ret'.args[2])
        /\ WellFormedStr(ret'.args[3])
        /\ UserExists(users, int(ret'.args[1]))
        /\ UserExists(users, int(ret'.args[2])))
       => LET rows == PieceRows(art_pieces, ret'.args[3])
              authorised == rows # <<>> /\ rows[1].owner_id = int(ret'.args[1])
          IN  /\ Returned(ret'.resp, Status.OK) <=> authorised
              /\ ~authorised =>
                    /\ Returned(ret'.resp, Status.VALUE_ERROR)
                    /\ art_pieces' = art_pieces
                    /\ transactions' = transactions]_vars

UniqueUids(pcs) ==
    \A i, j \in DOMAIN pcs : pcs[i].piece_uid = pcs[j].piece_uid => i = j

\* C3 (as claimed): art_pieces holds at most one row per piece_uid, and a
\* new_piece whose piece_uid is already registered answers ALREADY_EXISTS and
\* leaves the registered piece as it was.
C3_DuplicateIsAlreadyExists ==
    [][/\ UniqueUids(art_pieces')
       /\ (/\ ret'.op = "new_piece"
           /\ WellFormedId(ret'.args[1]) /\ WellFormedStr(ret'.args[2])
           /\ PieceRows(art_pieces, ret'.args[3]) # <<>>)
          => /\ Returned(ret'.resp, Status.ALREADY_EXISTS)
             /\ art_pieces' = art_pieces]_vars

\* C3 (amended): art_pieces holds at most one row per piece_uid; a new_piece
\* whose piece_uid is already registered never answers OK and leaves
\* art_pieces as it was; with well-formed parameters it answers
\* ALREADY_EXISTS when the creator exists and NOT_FOUND when it does not.
C3_DuplicateFails ==
    [][/\ UniqueUids(art_pieces')
       /\ (ret'.op = "new_piece" /\ PieceRows(art_pieces, ret'.args[3]) # <<>>)
          => /\ ~Returned(ret'.resp, Status.OK)
             /\ art_pieces' = art_pieces
             /\ (WellFormedId(ret'.args[1]) /\ WellFormedStr(ret'.args[2]))
                => IF UserExists(users, int(ret'.args[1]))
                   THEN Returned(ret'.resp, Status.ALREADY_EXISTS)
                   ELSE Returned(ret'.resp, Status.NOT_FOUND)]_vars

\* An existing user has just tried to register a uid that is registered.
C3_Witness ==
    /\ ret.op = "new_piece"
    /\ Returned(ret.resp, Status.ALREADY_EXISTS)
    /\ Len(PieceRows(art_pieces, ret.args[3])) = 1

\* The id the next newUser would assign: MAX(user_id) + 1, or 1 on an empty
\* table.
NextUserId(us) == IF MaxUserId(us) = None THEN 1 ELSE Val(MaxUserId(us)) + 1
\* newUser fails on this table, whatever the name.
CreationFails(us) == \A name \in MgrNames : newUser(us, name).ret = None

\* C4: the k-th successful newUser returns k and appends the row (name, k);
\* user ids are never assigned twice; a failing newUser leaves users as it
\* was, and once newUser fails it fails after every later step.
C4_MonotonicUserIds ==
    [][/\ (ret'.op = "newUser" /\ ret'.resp # None)
          => /\ Val(ret'.resp) = Len(users) + 1
             /\ users' = Append(users, [name |-> ret'.args[1],
                                        user_id |-> Val(ret'.resp)])
       /\ (ret'.op = "newUser" /\ ret'.resp = None) => users' = users
       /\ \A i \in DOMAIN users' : users'[i].user_id = i
       /\ CreationFails(users) => CreationFails(users')]_vars

\* A newUser has failed after the successful ones.
C4_Witness ==
    /\ ret.op = "newUser"
    /\ ret.resp = None
    /\ Len(users) >= 2

\* C5 (as claimed): newUser fails exactly when the next id exceeds
\* MAX_USER_ID, so a user with id MAX_USER_ID can be created.
C5_FailsAboveMax ==
    [][ret'.op = "newUser"
       => (ret'.resp = None <=> NextUserId(users) > MAX_USER_ID)]_vars

\* C5 (amended): newUser fails exactly when the next id is MAX_USER_ID or
\* more; no user ever gets the id MAX_USER_ID and at most MAX_USER_ID - 1
\* users are stored.
C5_FailsAtMax ==
    [][/\ ret'.op = "newUser"
          => (ret'.resp = None <=> NextUserId(users) >= MAX_USER_ID)
       /\ Len(users') <= MAX_USER_ID - 1
       /\ \A i \in DOMAIN users' : users'[i].user_id < MAX_USER_ID]_vars

\* newUser has just failed for the id MAX_USER_ID.
C5_Witness ==
    /\ ret.op = "newUser"
    /\ ret.resp = None
    /\ NextUserId(users) = MAX_USER_ID

\* C6 (as claimed): mark_on_sale on an existing piece by an existing caller
\* answers OK and sets on_sale to the flag iff the caller is the piece's
\* owner; a caller who is not answers VALUE_ERROR and nothing changes.
C6_SaleFlagAuthorization ==
    [][(/\ ret'.op = "mark_on_sale"
        /\ WellFormedId(ret'.args[1]) /\ WellFormedStr(ret'.args[2])
        /\ WellFormedStr(ret'.args[3])
        /\ UserExists(users, int(ret'.args[1]))
        /\ PieceRows(art_pieces, ret'.args[2]) # <<>>)
       => IF PieceRows(art_pieces, ret'.args[2])[1].owner_id = int(ret'.args[1])
          THEN /\ Returned(ret'.resp, Status.OK)
               /\ PieceRows(art_pieces', ret'.args[2])[1].on_sale
                      = (lower(ret'.args[3]) = "true")
          ELSE /\ Returned(ret'.resp, Status.VALUE_ERROR)
               /\ stores' = stores]_vars

C8_OwnerAndCreatorExist ==
    \A i \in DOMAIN art_pieces :
        /\ UserExists(users, art_pieces[i].owner_id)
        /\ UserExists(users, art_pieces[i].creator_id)

\* C9: new_piece with well-formed parameters and a user_id that is no user
\* answers NOT_FOUND and leaves art_pieces as it was, whether or not the
\* piece_uid is registered.
C9_UnknownCreator ==
    [][(/\ ret'.op = "new_piece"
        /\ WellFormedId(ret'.args[1]) /\ WellFormedStr(ret'.args[2])
        /\ WellFormedStr(ret'.args[3])
        /\ ~UserExists(users, int(ret'.args[1])))
       => /\ Returned(ret'.resp, Status.NOT_FOUND)
          /\ art_pieces' = art_pieces]_vars

\* An unknown creator has just been refused for a uid that is registered.
C9_Witness ==
    /\ ret.op = "new_piece"
    /\ Returned(ret.resp, Status.NOT_FOUND)
    /\ PieceRows(art_pieces, ret.args[3]) # <<>>

\* C10: a request that does not answer OK (a failure status or an exception)
\* leaves users, art_pieces and transactions exactly as they were.
C10_FailureChangesNothing ==
    [][(ret'.op # "index" /\ ~Returned(ret'.resp, Status.OK))
       => stores' = stores]_vars

\* get_user_id has just failed to create a user: the id space is used up.
C10_Witness ==
    /\ ret.op = "get_user_id"
    /\ Returned(ret.resp, Status.VALUE_ERROR)
    /\ ret.args[1] # ""

\* C13: new_transaction with well-formed parameters in which old_owner_id or
\* new_owner_id is no user answers NOT_FOUND and leaves art_pieces and
\* transactions as they were, whether or not the piece exists and whoever
\* owns it.
C13_UnknownUserFirst ==
    [][(/\ ret'.op = "new_transaction"
        /\ WellFormedId(ret'.args[1]) /\ WellFormedId(ret'.args[2])
        /\ WellFormedStr(ret'.args[3])
        /\ \/ ~UserExists(users, int(ret'.args[1]))
           \/ ~UserExists(users, int(ret'.args[2])))
       => /\ Returned(ret'.resp, Status.NOT_FOUND)
          /\ art_pieces' = art_pieces
          /\ transactions' = transactions]_vars

\* The owner of a registered piece has just been refused a transfer to a
\* user that does not exist.
C13_Witness ==
    /\ ret.op = "new_transaction"
    /\ Returned(ret.resp, Status.NOT_FOUND)
    /\ WellFormedId(ret.args[1]) /\ WellFormedId(ret.args[2])
    /\ ~UserExists(users, int(ret.args[2]))
    /\ \E i \in DOMAIN art_pieces :
          /\ art_pieces[i].piece_uid = ret.args[3]
          /\ art_pieces[i].owner_id = int(ret.args[1])

\* C14: registerNewPiece succeeds exactly on an unregistered uid, and then
\* appends the one row (name, uid, creator_id, owner_id = creator_id,
\* on_sale = false) and leaves the other pieces, users and transactions as
\* they were.
C14_RegisterAddsOnePiece ==
    [][ret'.op = "registerNewPiece"
       => /\ ret'.resp = TRUE <=> PieceRows(art_pieces, ret'.args[2]) = <<>>
          /\ ret'.resp = TRUE
             => /\ art_pieces' = Append(art_pieces,
                        [name |-> ret'.args[1], piece_uid |-> ret'.args[2],
                         creator_id |-> ret'.args[3], owner_id |-> ret'.args[3],
                         on_sale |-> FALSE])
                /\ users' = users
                /\ transactions' = transactions]_vars

\* A second piece has just been registered.
C14_Witness ==
    /\ ret.op = "registerNewPiece"
    /\ ret.resp = TRUE
    /\ Len(art_pieces) = 2

\* Rows of users never change the id a name resolves to.
NamesKeepTheirIds ==
    \A name \in QueryNames :
        findUserIdByName(users, name) # None
        => findUserIdByName(users', name) = findUserIdByName(users, name)

\* C15 (as claimed): get_user_id returns the id of the user with that name
\* and creates nothing if there is one, and otherwise creates exactly one
\* user and returns the new id; a name keeps its id; check_user_exist
\* creates nothing.
C15_GetOrCreate ==
    [][/\ (ret'.op = "get_user_id" /\ ret'.args[1] # "")
          => /\ Returned(ret'.resp, Status.OK)
             /\ IF findUserIdByName(users, ret'.args[1]) # None
                THEN /\ ret'.resp.value = Val(findUserIdByName(users, ret'.args[1]))
                     /\ users' = users
                ELSE users' = Append(users, [name |-> ret'.args[1],
                                             user_id |-> ret'.resp.value])
       /\ NamesKeepTheirIds
       /\ ret'.op = "check_user_exist" => users' = users]_vars

\* C15 (amended): as claimed, except that for a name that is no user's
\* while the next id is MAX_USER_ID or more, get_user_id answers
\* VALUE_ERROR and creates nothing.
C15_GetOrCreateUnlessFull ==
    [][/\ (ret'.op = "get_user_id" /\ ret'.args[1] # "")
          => IF findUserIdByName(users, ret'.args[1]) # None
             THEN /\ Returned(ret'.resp, Status.OK)
                  /\ ret'.resp.value = Val(findUserIdByName(users, ret'.args[1]))
                  /\ users' = users
             ELSE IF NextUserId(users) >= MAX_USER_ID
             THEN /\ Returned(ret'.resp, Status.VALUE_ERROR)
                  /\ users' = users
             ELSE /\ Returned(ret'.resp, Status.OK)
                  /\ users' = Append(users, [name |-> ret'.args[1],
                                             user_id |-> ret'.resp.value])
       /\ NamesKeepTheirIds
       /\ ret'.op = "check_user_exist" => users' = users]_vars

\* get_user_id has just returned the id of a user created before the last
\* one: a repeated call.
C15_Witness ==
    /\ ret.op = "get_user_id"
    /\ Returned(ret.resp, Status.OK)
    /\ \E i \in DOMAIN users :
          /\ i < Len(users)
          /\ users[i].name = ret.args[1]
          /\ users[i].user_id = ret.resp.value

\* C16: creator_get_pieces answers NOT_FOUND iff no piece has the given
\* creator_id, and otherwise OK with one dict per piece of that creator and
\* no others, each showing its row's name, uid and on_sale and the names of
\* its creator and owner; the owner plays no part in the selection.
C16_PiecesByCreator ==
    [][(ret'.op = "creator_get_pieces" /\ WellFormedId(ret'.args[1]))
       => LET mine == {i \in DOMAIN art_pieces :
                          art_pieces[i].creator_id = int(ret'.args[1])}
          IN  IF mine = {}
              THEN Returned(ret'.resp, Status.NOT_FOUND)
              ELSE /\ Returned(ret'.resp, Status.OK)
                   /\ Len(ret'.resp.value) = Cardinality(mine)
                   /\ \A i \in mine : \E k \in DOMAIN ret'.resp.value :
                         ret'.resp.value[k] =
                            [name |-> art_pieces[i].name,
                             piece_uid |-> art_pieces[i].piece_uid,
                             creator |-> findUserNameById(users, art_pieces[i].creator_id),
                             owner |-> findUserNameById(users, art_pieces[i].owner_id),
                             on_sale |-> art_pieces[i].on_sale]]_vars

\* Both pieces of one creator have just been listed.
C16_Witness ==
    /\ ret.op = "creator_get_pieces"
    /\ Returned(ret.resp, Status.OK)
    /\ Len(ret.resp.value) = 2

\* C17: no step removes or reorders a row of users, art_pieces or
\* transactions; rows of users and of transactions never change, and of a
\* row of art_pieces only owner_id and on_sale may change.
C17_AppendOnly ==
    [][/\ Len(users') >= Len(users)
       /\ \A i \in DOMAIN users : users'[i] = users[i]
       /\ Len(art_pieces') >= Len(art_pieces)
       /\ \A i \in DOMAIN art_pieces :
             /\ art_pieces'[i].name = art_pieces[i].name
             /\ art_pieces'[i].piece_uid = art_pieces[i].piece_uid
             /\ art_pieces'[i].creator_id = art_pieces[i].creator_id
       /\ Len(transactions') >= Len(transactions)
       /\ \A i \in DOMAIN transactions : transactions'[i] = transactions[i]]_vars

\* markOnSale has just put a piece on sale while users and two pieces are
\* stored.
C17_Witness ==
    /\ ret.op = "markOnSale"
    /\ ret.resp = TRUE
    /\ Len(art_pieces) = 2
    /\ users # <<>>
    /\ \E i \in DOMAIN art_pieces : art_pieces[i].on_sale

\* C18: in every state reached through the handlers no two rows of users
\* have the same name.
C18_UniqueNames ==
    \A i, j \in DOMAIN users : users[i].name = users[j].name => i = j

\* With two users stored, get_user_id has just looked the first one up again.
C18_Witness ==
    /\ ret.op = "get_user_id"
    /\ Returned(ret.resp, Status.OK)
    /\ Len(users) = 2
    /\ ret.resp.value = users[1].user_id

\* C19: in every reachable state transactions is empty and every piece's
\* owner_id is its creator_id.
C19_NoTransferEverRecorded ==
    /\ transactions = <<>>
    /\ \A i \in DOMAIN art_pieces : art_pieces[i].owner_id = art_pieces[i].creator_id

\* The owner of a registered piece has just asked to transfer it to another
\* existing user, and the request has died on the missing method.
C19_Witness ==
    /\ ret.op = "new_transaction"
    /\ Raised(ret.resp, "AttributeError")
    /\ ret.args[1] # ret.args[2]
    /\ \E i \in DOMAIN art_pieces :
          /\ art_pieces[i].piece_uid = ret.args[3]
          /\ art_pieces[i].owner_id = int(ret.args[1])

\* C11 (as claimed): with newUser calls interleaved in any order no two rows
\* of users carry the same user_id.
C11_UniqueUserIds ==
    \A i, j \in DOMAIN users : users[i].user_id = users[j].user_id => i = j

\* C12 (as claimed): with registerNewPiece calls for one uid interleaved in
\* any order at most one of them inserts, so art_pieces holds at most one
\* row for the uid.
C12_OneRowPerUid ==
    \A uid \in ConcUids : Len(PieceRows(art_pieces, uid)) <= 1

====
